---------------------------- MODULE Spec2Model ----------------------------
(***************************************************************************)
(* symbolicate-trace: the Breakpad symbol parser and its tiered lookup     *)
(* (breakpad.js), and the symbol cache / fetch coordinator with its        *)
(* per-module-id table of resolutions (the command-line module).           *)
(*                                                                         *)
(* The specifications of this module:                                      *)
(*   SpecLookup  parses a symbol file line by line and queries lookup;     *)
(*   SpecParse   parses symbol files that have records without a name;     *)
(*   Spec        runs symbolicate() calls, or the one call of cli(),       *)
(*               against a cache directory and the two symbol servers;     *)
(*   SpecFair    is Spec with every I/O operation completing;              *)
(*   SpecTable   runs symbolicate() calls that name their cache directory, *)
(*               on frames that give one module id two module names.       *)
(***************************************************************************)
EXTENDS Integers, Sequences, FiniteSets, TLC

VARIABLES
    \* ---- parser / lookup (breakpad.js)
    keepFirst,    \* how the address index treats a second record at an address
    text,         \* the lines of the symbol file being parsed
    pos,          \* index of the next line the parser reads
    ps,           \* parser state: the three indexes, filesById, lastFunc
    offset,       \* the last offset passed to lookup
    result,       \* what lookup returned for it
    lpc,          \* "parsing", "parsed" or "looked"
    \* ---- symbol cache and fetch coordinator
    symbolFiles,  \* the process-wide Map: module id -> index into calls (0: no entry)
    calls,        \* the getSymbolFile invocations, in the order they were started
    tasks,        \* the symbolicateFrame invocations, in the order they were started
    runs,         \* the symbolicate() calls, in the order they were made, each with
                  \* the state of the cli() call that made it, if one did
    dirs,         \* per-module cache directories that exist
    files,        \* what is at each cache path and at each staging path
    tmpDir        \* the cache directories whose in_progress directory exists

lookupVars == <<keepFirst, text, pos, ps, offset, result, lpc>>
coordVars  == <<symbolFiles, calls, tasks, runs, dirs, files, tmpDir>>
vars       == <<keepFirst, text, pos, ps, offset, result, lpc,
                symbolFiles, calls, tasks, runs, dirs, files, tmpDir>>

-----------------------------------------------------------------------------
(* Bounds of the model.                                                    *)

MaxLines  == 4      \* lines of a symbol file drawn by SpecLookup
MaxRuns   == 2      \* symbolicate() calls made in one process
MaxEvents == 1      \* trace events of one trace
MaxFrames == 2      \* frames of one event's frame list
MaxTasks  == 3      \* symbolicateFrame calls made in one process
MaxParseLines == 3  \* lines of a symbol file drawn by SpecParse

-----------------------------------------------------------------------------
(* JavaScript values.                                                      *)

\* null: lastFunc before any FUNC record, lb() on an empty range
Null == [null |-> TRUE]

\* undefined: a Map miss, a function that returns nothing
Undefined == [undefined |-> TRUE]

\* parseInt(s, 16) of a string of lowercase hex digits, given as digit values
RECURSIVE HexVal(_)
HexVal(ds) ==
    IF ds = <<>> THEN 0 ELSE 16 * HexVal(SubSeq(ds, 1, Len(ds) - 1)) + ds[Len(ds)]

\* parseInt(s, 10) of a string of decimal digits
RECURSIVE DecVal(_)
DecVal(ds) ==
    IF ds = <<>> THEN 0 ELSE 10 * DecVal(SubSeq(ds, 1, Len(ds) - 1)) + ds[Len(ds)]

-----------------------------------------------------------------------------
(* breakpad.js: the address index.                                         *)
(* A tree is the ascending sequence of its records; the tree library keeps *)
(* at most one record per address and the comparator is on address.        *)

\* impl.newTree
newTree == <<>>

\* the records of a tree, as a set
Elems(tree) == {tree[i] : i \in 1..Len(tree)}

\* impl.insert: tree.add(v). Which record answers for an address that was
\* added twice is left open by the format: kf = TRUE keeps the one already
\* in the tree, kf = FALSE lets the new one answer.
insert(tree, v, kf) ==
    LET below == SelectSeq(tree, LAMBDA r : r.address < v.address)
        same  == SelectSeq(tree, LAMBDA r : r.address = v.address)
        above == SelectSeq(tree, LAMBDA r : r.address > v.address)
    IN  IF same # <<>> /\ kf THEN tree ELSE below \o <<v>> \o above

\* impl.lb: the first node of the reverse-order traversal that starts at
\* {address: k}, i.e. the record with the greatest address <= k, else null
lb(tree, k) ==
    LET le == SelectSeq(tree, LAMBDA r : r.address <= k)
    IN  IF le = <<>> THEN Null ELSE le[Len(le)]

-----------------------------------------------------------------------------
(* breakpad.js: symbolFile.lookup.                                         *)

\* lookup, were the function index asked before the line index
lookupFunctionFirst(sf, off) ==
    LET line   == lb(sf.lines, off)
        func   == lb(sf.functions, off)
        public == lb(sf.publicAddresses, off)
    IN  IF func # Null /\ off < func.address + func.size THEN [func |-> func]
        ELSE IF line # Null /\ off < line.address + line.size THEN line
        ELSE IF public # Null THEN [func |-> public]
        ELSE Undefined

\* lookup, were the end of a range taken as part of it
lookupInclusive(sf, off) ==
    LET line   == lb(sf.lines, off)
        func   == lb(sf.functions, off)
        public == lb(sf.publicAddresses, off)
    IN  IF line # Null /\ off <= line.address + line.size THEN line
        ELSE IF func # Null /\ off <= func.address + func.size THEN [func |-> func]
        ELSE IF public # Null THEN [func |-> public]
        ELSE Undefined

\* lookup, were a public symbol given the extent of a page
lookupPublicBounded(sf, off) ==
    LET line   == lb(sf.lines, off)
        func   == lb(sf.functions, off)
        public == lb(sf.publicAddresses, off)
    IN  IF line # Null /\ off < line.address + line.size THEN line
        ELSE IF func # Null /\ off < func.address + func.size THEN [func |-> func]
        ELSE IF public # Null /\ off < public.address + 4096 THEN [func |-> public]
        ELSE Undefined

lookup(sf, off) ==
    LET line   == lb(sf.lines, off)
        func   == lb(sf.functions, off)
        public == lb(sf.publicAddresses, off)
    IN  IF line # Null /\ off < line.address + line.size THEN line
        ELSE IF func # Null /\ off < func.address + func.size THEN [func |-> func]
        ELSE IF public # Null THEN [func |-> public]
        ELSE Undefined

-----------------------------------------------------------------------------
(* breakpad.js: parse.  A line of the file is given by its tokens: kind is *)
(* the keyword ("LINE" for the all-numeric record, "OTHER" for STACK ...), *)
(* the hex and decimal fields are digit strings, name is the rest of the   *)
(* line.  A regex with `+` needs a non-empty field.                        *)

Line(kind, m, a, s, n, f, name) ==
    [kind |-> kind, m |-> m, addressHex |-> a, sizeHex |-> s,
     parameterSizeHex |-> <<0>>, lineNumber |-> n, fileId |-> f, name |-> name]

\* /^MODULE (\S+) (\S+) (\S+) (.+)$/
MatchMODULE(l) == l.kind = "MODULE" /\ l.name # ""
\* /^FILE (\d+) (.+)$/
MatchFILE(l) == l.kind = "FILE" /\ l.fileId # <<>> /\ l.name # ""
\* MatchFUNC, were the name matched by (.*)
MatchFUNCAnyName(l) ==
    /\ l.kind = "FUNC" /\ l.addressHex # <<>> /\ l.sizeHex # <<>>
    /\ l.parameterSizeHex # <<>>

\* /^FUNC (?:(m) )?([0-9a-f]+) ([0-9a-f]+) ([0-9a-f]+) (.+)$/
MatchFUNC(l) ==
    /\ l.kind = "FUNC" /\ l.addressHex # <<>> /\ l.sizeHex # <<>>
    /\ l.parameterSizeHex # <<>> /\ l.name # ""
\* /^PUBLIC (?:(m) )?([0-9a-f]+) ([0-9a-f]+) (.+)$/
MatchPUBLIC(l) ==
    l.kind = "PUBLIC" /\ l.addressHex # <<>> /\ l.parameterSizeHex # <<>> /\ l.name # ""
\* /^([0-9a-f]+) ([0-9a-f]+) (\d+) (\d+)$/
MatchLINE(l) ==
    /\ l.kind = "LINE" /\ l.addressHex # <<>> /\ l.sizeHex # <<>>
    /\ l.lineNumber # <<>> /\ l.fileId # <<>>

\* the state of parse before the first line
ParseInit ==
    [functions |-> newTree, lines |-> newTree, publicAddresses |-> newTree,
     filesById |-> <<>>, lastFunc |-> Null, module |-> Undefined]

\* a JavaScript string value held where undefined may be held too
Str(s) == [str |-> s]

\* filesById.get(fileId); filesById is the sequence of [id, name] pairs set so
\* far, the keys are the id strings as written ("01" is not "1")
filesByIdGet(fb, id) ==
    LET hits == SelectSeq(fb, LAMBDA e : e.id = id)
    IN  IF hits = <<>> THEN Undefined ELSE Str(hits[Len(hits)].name)

\* one iteration of `for await (const line of rl)`
ParseLine(st, l, kf) ==
    IF MatchMODULE(l) THEN
        [st EXCEPT !.module = [name |-> l.name]]
    ELSE IF MatchFILE(l) THEN
        [st EXCEPT !.filesById = Append(@, [id |-> l.fileId, name |-> l.name])]
    ELSE IF MatchFUNC(l) THEN
        LET func == [address |-> HexVal(l.addressHex), size |-> HexVal(l.sizeHex),
                     parameterSize |-> HexVal(l.parameterSizeHex),
                     name |-> l.name, multiple |-> l.m]
        IN  [st EXCEPT !.functions = insert(@, func, kf), !.lastFunc = func]
    ELSE IF MatchPUBLIC(l) THEN
        LET func == [address |-> HexVal(l.addressHex),
                     parameterSize |-> HexVal(l.parameterSizeHex),
                     name |-> l.name, multiple |-> l.m]
        IN  [st EXCEPT !.publicAddresses = insert(@, func, kf)]
    ELSE IF MatchLINE(l) THEN
        LET rec == [address |-> HexVal(l.addressHex), size |-> HexVal(l.sizeHex),
                    file |-> filesByIdGet(st.filesById, l.fileId),
                    line |-> DecVal(l.lineNumber), func |-> st.lastFunc]
        IN  [st EXCEPT !.lines = insert(@, rec, kf)]
    ELSE st

\* parse of a whole file: the loop over its lines, then `return symbolFile`
RECURSIVE ParseFrom(_, _, _)
ParseFrom(st, ls, kf) ==
    IF ls = <<>> THEN st ELSE ParseFrom(ParseLine(st, Head(ls), kf), Tail(ls), kf)

parse(ls, kf) == ParseFrom(ParseInit, ls, kf)

-----------------------------------------------------------------------------
(* The symbol files and offsets SpecLookup draws from.                     *)

L_FUNC   == Line("FUNC",   FALSE, <<1,0,0,0>>, <<5,0>>, <<>>, <<>>, "foo")
L_FUNCm  == Line("FUNC",   TRUE,  <<1,0,0,0>>, <<8>>,   <<>>, <<>>, "bar")
L_FILE   == Line("FILE",   FALSE, <<>>, <<>>, <<>>, <<1>>, "a.cc")
L_LINE   == Line("LINE",   FALSE, <<1,0,1,0>>, <<1,0>>, <<4,2>>, <<1>>, "")
L_LINE2  == Line("LINE",   FALSE, <<1,0,0,0>>, <<4>>,   <<7>>,   <<2>>, "")
L_PUBLIC == Line("PUBLIC", FALSE, <<1,0,0,8>>, <<>>, <<>>, <<>>, "pub")
L_OTHER  == Line("OTHER",  FALSE, <<>>, <<>>, <<>>, <<>>, "STACK CFI")

LineCandidates == {L_FUNC, L_FUNCm, L_FILE, L_LINE, L_LINE2, L_PUBLIC, L_OTHER}

Texts == UNION {[1..n -> LineCandidates] : n \in 0..MaxLines}

\* FUNC 1000 50 0 foo / FILE 1 a.cc / 1010 10 42 1
ExampleText == <<L_FUNC, L_FILE, L_LINE>>

Offsets ==
    {HexVal(<<15,15,15>>), HexVal(<<1,0,0,2>>), HexVal(<<1,0,0,10>>),
     HexVal(<<1,0,1,5>>), HexVal(<<1,0,2,0>>), HexVal(<<1,0,5,0>>),
     HexVal(<<2,0,0,0>>), HexVal(<<7,15,15,15,15,15,15,15>>)}

-----------------------------------------------------------------------------
(* SpecLookup: parse a file line by line, then query it.                   *)

LookupInit ==
    /\ keepFirst \in BOOLEAN
    /\ text \in Texts
    /\ pos = 1
    /\ ps = ParseInit
    /\ offset = 0
    /\ result = Undefined
    /\ lpc = "parsing"

\* the body of the `for await` loop, for the next line
ParseStep ==
    /\ lpc = "parsing"
    /\ pos <= Len(text)
    /\ ps' = ParseLine(ps, text[pos], keepFirst)
    /\ pos' = pos + 1
    /\ UNCHANGED <<keepFirst, text, offset, result, lpc>>
    /\ UNCHANGED coordVars

\* the input ended: `return symbolFile`
ParseReturn ==
    /\ lpc = "parsing"
    /\ pos > Len(text)
    /\ lpc' = "parsed"
    /\ UNCHANGED <<keepFirst, text, pos, ps, offset, result>>
    /\ UNCHANGED coordVars

\* symbolFile.lookup(offset) on the parsed file
Lookup ==
    /\ lpc \in {"parsed", "looked"}
    /\ \E o \in Offsets :
        /\ offset' = o
        /\ result' = lookup(ps, o)
    /\ lpc' = "looked"
    /\ UNCHANGED <<keepFirst, text, pos, ps>>
    /\ UNCHANGED coordVars

-----------------------------------------------------------------------------
(* The command-line module: paths, servers and the cache directory.        *)

SYMBOL_BASE_URLS == <<"https://symbols.mozilla.org/try", "https://symbols.electronjs.org">>

\* moduleName.replace(/^\//, ''); a name is the sequence of its parts
Pdb(moduleName) ==
    IF moduleName # <<>> /\ Head(moduleName) = "/" THEN Tail(moduleName) ELSE moduleName

\* pdb.replace(/(\.pdb)?$/, '.sym')
SymbolFileName(pdb) ==
    IF pdb # <<>> /\ pdb[Len(pdb)] = ".pdb"
    THEN SubSeq(pdb, 1, Len(pdb) - 1) \o <<".sym">>
    ELSE pdb \o <<".sym">>

\* defaultCacheDirectory(), and a directory a caller of symbolicate may name
\* in its options instead
defaultCacheDirectory == "cache/breakpad_symbols"
otherCacheDirectory   == "elsewhere"
CacheDirectories      == {defaultCacheDirectory, otherCacheDirectory}

\* path.join(cacheDirectory, pdb, moduleId, symbolFileName)
SymbolPath(cacheDirectory, moduleName, moduleId) ==
    <<cacheDirectory, Pdb(moduleName), moduleId, SymbolFileName(Pdb(moduleName))>>

\* path.dirname(symbolPath): the per-module cache directory
Dirname(symbolPath) == <<symbolPath[1], symbolPath[2], symbolPath[3]>>

\* TmpFilePath, were the download written straight to the cache path
TmpFilePathDirect(symbolPath) == symbolPath

\* path.join(tmpDir, `${pdb}_${id}_${symbolFileName}.download`) with
\* tmpDir = path.join(directory, 'in_progress')
TmpFilePath(symbolPath) ==
    <<symbolPath[1], <<"in_progress">>, symbolPath[3],
      symbolPath[2] \o symbolPath[4] \o <<".download">>>>

\* a path with nothing at it, and files
NoFile == [exists |-> FALSE, readable |-> FALSE, data |-> <<>>]
File(data) == [exists |-> TRUE, readable |-> TRUE, data |-> data]
\* something at the path that existsSync sees and whose read stream errors
UnreadableFile == [exists |-> TRUE, readable |-> FALSE, data |-> <<>>]

\* errors
HTTPError404 == [message |-> "Response code 404 (Not Found)"]
HTTPError500 == [message |-> "Response code 500 (Internal Server Error)"]
ReadError    == [message |-> "EISDIR: illegal operation on a directory, read"]
TypeError    == [message |-> "Cannot read properties of null (reading 'name')"]

\* what a request to a server can end with instead of the file
FetchErrors == {HTTPError404, HTTPError500}

\* Is404, were every failure of a fetch taken for a miss
Is404Any(err) == TRUE

\* err.message.startsWith('Response code 404')
Is404(err) == err.message = "Response code 404 (Not Found)"

-----------------------------------------------------------------------------
(* The environment of Spec: the frames of the traces, the file a cache     *)
(* directory may hold at start and the file each server has.               *)

NativeFrame(offsetHex, moduleName, moduleId) ==
    [shape |-> "native", offsetHex |-> offsetHex,
     moduleName |-> moduleName, moduleId |-> moduleId]

\* "0x1015 - /a.pdb [A1]" and "0x1050 - b [B2]"
F_A == NativeFrame(<<1,0,1,5>>, <<"/", "a", ".pdb">>, "A1")
F_B == NativeFrame(<<1,0,5,0>>, <<"b">>, "B2")
\* a frame that is no native frame, such as "foo (app.js:1:1)"
F_JS == [shape |-> "other", offsetHex |-> <<>>, moduleName |-> <<>>, moduleId |-> ""]

FrameCandidates == {F_A, F_B, F_JS}

\* /^0x([0-9a-f]+) - (.+) \[([0-9A-F]+)\]$/
FrameMatches(frame) ==
    /\ frame.shape = "native"
    /\ frame.offsetHex # <<>> /\ frame.moduleName # <<>> /\ frame.moduleId # ""

ModuleIds == {f.moduleId : f \in {g \in FrameCandidates : FrameMatches(g)}}

\* the cache paths of the modules of a set of frames
CachePathsOf(cacheDirectories, frames) ==
    {SymbolPath(d, f.moduleName, f.moduleId) :
        d \in cacheDirectories, f \in {g \in frames : FrameMatches(g)}}

CachePaths == CachePathsOf({defaultCacheDirectory}, FrameCandidates)

TmpPaths == {TmpFilePath(p) : p \in CachePaths}

\* the file an earlier process left in the cache
CachedText == ExampleText

\* the file server i has: the second server's file has a line record before
\* its FUNC record
ServerText(i) ==
    IF i = 1 THEN <<L_FUNC, L_FILE, L_LINE, L_PUBLIC>> ELSE <<L_LINE, L_FUNC, L_PUBLIC>>

\* the frame lists of an event: args.frames.split(/\n/)
FrameLists == UNION {[1..n -> FrameCandidates] : n \in 1..MaxFrames}

Events ==
    {[cat |-> "disabled-by-default-cpu_profiler", frames |-> fl] : fl \in FrameLists}
    \cup {[cat |-> "toplevel", frames |-> <<F_JS>>]}

Traces == UNION {[1..n -> Events] : n \in 1..MaxEvents}

-----------------------------------------------------------------------------
(* getSymbolFile, up to its first await.                                   *)

\* fetchSymbol up to `await mkdirp(tmpDir)`: got.stream(url) has sent the
\* request to server i
fetchSymbolStart(c, i) ==
    [c EXCEPT !.pc = "mkdirp_tmpDir", !.server = i, !.contacted = Append(@, i)]

\* getSymbolFile, were the fetch decided by the absence of the file alone
getSymbolFileIgnoringDirectory(moduleId, moduleName, opts, fsFiles, fsDirs) ==
    LET symbolPath == SymbolPath(opts.cacheDirectory, moduleName, moduleId)
        existed    == fsFiles[symbolPath].exists
        dirExisted == Dirname(symbolPath) \in fsDirs
        c == [moduleId |-> moduleId, moduleName |-> moduleName,
              cacheDirectory |-> opts.cacheDirectory,
              forceRefetch |-> opts.forceRefetch,
              existed |-> existed, dirExisted |-> dirExisted,
              pc |-> "start", server |-> 0, contacted |-> <<>>, answers |-> <<>>,
              e |-> Undefined, settled |-> "pending", value |-> Undefined]
    IN  IF existed /\ ~opts.forceRefetch THEN
            [c EXCEPT !.pc = "parseCached"]
        ELSE IF ~existed THEN
            fetchSymbolStart(c, 1)
        ELSE
            [c EXCEPT !.pc = "done", !.settled = "fulfilled"]

getSymbolFile(moduleId, moduleName, opts, fsFiles, fsDirs) ==
    LET symbolPath == SymbolPath(opts.cacheDirectory, moduleName, moduleId)
        existed    == fsFiles[symbolPath].exists
        dirExisted == Dirname(symbolPath) \in fsDirs
        c == [moduleId |-> moduleId, moduleName |-> moduleName,
              cacheDirectory |-> opts.cacheDirectory,
              forceRefetch |-> opts.forceRefetch,
              existed |-> existed, dirExisted |-> dirExisted,
              pc |-> "start", server |-> 0, contacted |-> <<>>, answers |-> <<>>,
              e |-> Undefined, settled |-> "pending", value |-> Undefined]
    IN  IF existed /\ ~opts.forceRefetch THEN
            \* return breakpad.parse(fs.createReadStream(symbolPath)): parse is an
            \* async function, it returns its promise and the try block is left
            [c EXCEPT !.pc = "parseCached"]
        ELSE IF ~existed /\ (~dirExisted \/ opts.forceRefetch) THEN
            fetchSymbolStart(c, 1)
        ELSE
            [c EXCEPT !.pc = "done", !.settled = "fulfilled"]

-----------------------------------------------------------------------------
(* symbolicate: everything it runs before it first yields to the event     *)
(* loop, i.e. every symbolicateFrame of every event up to its await.       *)

\* Has, were the table never consulted
HasNever(sf, moduleId) == FALSE

\* symbolFiles.has(moduleId)
Has(sf, moduleId) == sf[moduleId] # 0

\* symbolicateFrameStart, were an entry made for another cache directory
\* not taken for the module's resolution
symbolicateFrameStartPerDirectory(st, frame, r, ev, i, opts, fsFiles, fsDirs) ==
    LET task == [run |-> r, event |-> ev, index |-> i, frame |-> frame,
                 awaits |-> 0, late |-> FALSE, state |-> "awaiting",
                 symbols |-> Undefined, value |-> Undefined]
    IN  IF FrameMatches(frame) THEN
            LET id  == frame.moduleId
                st1 == IF \/ ~Has(st.symbolFiles, id)
                          \/ st.calls[st.symbolFiles[id]].cacheDirectory # opts.cacheDirectory
                       THEN [st EXCEPT
                               !.calls = Append(@, getSymbolFile(id, frame.moduleName, opts,
                                                                 fsFiles, fsDirs)),
                               !.symbolFiles[id] = Len(st.calls) + 1]
                       ELSE st
                ci  == st1.symbolFiles[id]
            IN  [st1 EXCEPT !.tasks = Append(@, [task EXCEPT
                                !.awaits = ci,
                                !.late = st1.calls[ci].settled # "pending"])]
        ELSE
            [st EXCEPT !.tasks = Append(@, task)]

\* symbolicateFrame(frame, opts) up to `await symbolFiles.get(moduleId)`;
\* st holds symbolFiles, calls and tasks
symbolicateFrameStart(st, frame, r, ev, i, opts, fsFiles, fsDirs) ==
    LET task == [run |-> r, event |-> ev, index |-> i, frame |-> frame,
                 awaits |-> 0, late |-> FALSE, state |-> "awaiting",
                 symbols |-> Undefined, value |-> Undefined]
    IN  IF FrameMatches(frame) THEN
            LET id  == frame.moduleId
                st1 == IF ~Has(st.symbolFiles, id)
                       THEN [st EXCEPT
                               !.calls = Append(@, getSymbolFile(id, frame.moduleName, opts,
                                                                 fsFiles, fsDirs)),
                               !.symbolFiles[id] = Len(st.calls) + 1]
                       ELSE st
                ci  == st1.symbolFiles[id]
            IN  [st1 EXCEPT !.tasks = Append(@, [task EXCEPT
                                !.awaits = ci,
                                !.late = st1.calls[ci].settled # "pending"])]
        ELSE
            [st EXCEPT !.tasks = Append(@, task)]

\* frameLines.map(l => symbolicateFrame(l, opts)), from frame i on
RECURSIVE symbolicateFramesStart(_, _, _, _, _, _, _, _)
symbolicateFramesStart(st, frameLines, i, r, ev, opts, fsFiles, fsDirs) ==
    IF i > Len(frameLines) THEN st
    ELSE symbolicateFramesStart(
            symbolicateFrameStart(st, frameLines[i], r, ev, i, opts, fsFiles, fsDirs),
            frameLines, i + 1, r, ev, opts, fsFiles, fsDirs)

\* the condition of maybeSymbolicate
Eligible(event) ==
    event.cat = "disabled-by-default-cpu_profiler" /\ event.frames # <<>>

\* trace.traceEvents.map(e => maybeSymbolicate(e, opts)), from event ev on
RECURSIVE maybeSymbolicateStart(_, _, _, _, _, _, _)
maybeSymbolicateStart(st, traceEvents, ev, r, opts, fsFiles, fsDirs) ==
    IF ev > Len(traceEvents) THEN st
    ELSE maybeSymbolicateStart(
            IF Eligible(traceEvents[ev])
            THEN symbolicateFramesStart(st, traceEvents[ev].frames, 1, r, ev, opts,
                                        fsFiles, fsDirs)
            ELSE st,
            traceEvents, ev + 1, r, opts, fsFiles, fsDirs)

\* an array slot Promise.all has not filled yet
Hole == [hole |-> TRUE]

\* the arrays of the Promise.all of each event of a trace
EmptyOut(trace) ==
    [ev \in 1..Len(trace) |->
        IF Eligible(trace[ev]) THEN [i \in 1..Len(trace[ev].frames) |-> Hole] ELSE <<>>]

\* the number of symbolicateFrame calls a trace makes, from event ev on
RECURSIVE FrameCount(_, _)
FrameCount(trace, ev) ==
    IF ev > Len(trace) THEN 0
    ELSE (IF Eligible(trace[ev]) THEN Len(trace[ev].frames) ELSE 0) + FrameCount(trace, ev + 1)

\* every array of a run is full
OutFull(out) == \A ev \in 1..Len(out) : \A i \in 1..Len(out[ev]) : out[ev][i] # Hole

-----------------------------------------------------------------------------
(* symbolicateFrame after its await, and Promise.all.                      *)

\* the frame as it was
Unresolved(frame) == [frame |-> frame, suffix |-> <<>>]

\* `${frame} ${line.func.name}` + (line.file ? ` (${line.file}:${line.line})` : '')
Resolved(frame, line) ==
    [frame |-> frame,
     suffix |-> <<" ", line.func.name>> \o
                (IF "file" \in DOMAIN line /\ line.file # Undefined
                 THEN <<" (", line.file.str, ":", line.line, ")">>
                 ELSE <<>>)]

\* symbolicateFrame from `const symbols = await ...` on, for a frame that
\* matched and a resolution that fulfilled with symbols
symbolicateFrameResume(frame, symbols) ==
    IF symbols # Undefined THEN
        LET line == lookup(symbols, HexVal(frame.offsetHex))
        IN  IF line # Undefined THEN
                IF line.func = Null
                THEN [ok |-> FALSE, value |-> TypeError]
                ELSE [ok |-> TRUE, value |-> Resolved(frame, line)]
            ELSE [ok |-> TRUE, value |-> Unresolved(frame)]
    ELSE [ok |-> TRUE, value |-> Unresolved(frame)]

\* PromiseAllResolve, were the values collected in the order they arrive
PromiseAllPush(values, index, x) ==
    LET holes == {i \in 1..Len(values) : values[i] = Hole}
        first == CHOOSE i \in holes : \A j \in holes : i <= j
    IN  [values EXCEPT ![first] = x]

\* Promise.all: the value of the promise at `index` goes to values[index]
PromiseAllResolve(values, index, x) == [values EXCEPT ![index] = x]

-----------------------------------------------------------------------------
(* Spec: the process.                                                      *)

CoordIdle ==
    /\ symbolFiles = [m \in ModuleIds |-> 0]
    /\ calls = <<>>
    /\ tasks = <<>>
    /\ runs = <<>>
    /\ tmpDir = {}

LookupIdle ==
    /\ keepFirst = TRUE
    /\ text = <<>>
    /\ pos = 1
    /\ ps = ParseInit
    /\ offset = 0
    /\ result = Undefined
    /\ lpc = "idle"

\* The cache directory as earlier processes left it: at each cache path
\* nothing, a symbol file or something unreadable; a per-module directory
\* may exist without its file.
Init ==
    /\ LookupIdle
    /\ CoordIdle
    /\ \E cached \in [CachePaths -> {NoFile, File(CachedText), UnreadableFile}] :
          /\ files = [p \in CachePaths \cup TmpPaths |->
                        IF p \in CachePaths THEN cached[p] ELSE NoFile]
          /\ \E extra \in SUBSET {Dirname(p) : p \in CachePaths} :
                dirs = extra \cup {Dirname(p) : p \in {q \in CachePaths : cached[q].exists}}

\* the tasks whose await has its value and that have not resumed yet
Ready(t) ==
    /\ tasks[t].state = "awaiting"
    /\ tasks[t].awaits # 0 => calls[tasks[t].awaits].settled # "pending"

\* cli's `await symbolicate(trace)` has its outcome and cli has not resumed
CliReady(r) == runs[r].cli = "awaiting" /\ runs[r].settled # "pending"

\* the promise jobs run before the event loop takes the next I/O completion
Drained ==
    /\ \A t \in 1..Len(tasks) : ~Ready(t)
    /\ \A r \in 1..Len(runs) : ~CliReady(r)

\* symbolicate(trace, options) with opts = {cacheDirectory, forceRefetch}
\* filled in, up to the point where it yields to the event loop
symbolicate(trace, opts, byCli) ==
    LET r   == Len(runs) + 1
        st  == maybeSymbolicateStart(
                   [symbolFiles |-> symbolFiles, calls |-> calls, tasks |-> tasks],
                   trace, 1, r, opts, files, dirs)
        out == EmptyOut(trace)
    IN  /\ symbolFiles' = st.symbolFiles
        /\ calls' = st.calls
        /\ tasks' = st.tasks
        /\ runs' = Append(runs,
                [trace |-> trace, opts |-> opts, out |-> out,
                 settled |-> IF OutFull(out) THEN "fulfilled" ELSE "pending",
                 value |-> Undefined,
                 cli |-> IF byCli THEN "awaiting" ELSE "none",
                 outFile |-> NoFile])

\* symbolicate(trace, options): the calls a program makes that uses the
\* library, or the one call cli() makes, with no options, when the module is
\* run as the command
Symbolicate ==
    /\ Drained
    /\ Len(runs) < MaxRuns
    /\ \A q \in 1..Len(runs) : runs[q].cli = "none"
    /\ \E trace \in {tr \in Traces : Len(tasks) + FrameCount(tr, 1) <= MaxTasks},
          forceRefetch \in BOOLEAN, byCli \in BOOLEAN :
        /\ byCli => (Len(runs) = 0 /\ ~forceRefetch)
        /\ symbolicate(trace, [cacheDirectory |-> defaultCacheDirectory,
                               forceRefetch |-> forceRefetch], byCli)
    /\ UNCHANGED <<dirs, files, tmpDir>>
    /\ UNCHANGED lookupVars

\* symbolPath of call c, and the staging file fetchSymbol downloads to
Path(c) == SymbolPath(calls[c].cacheDirectory, calls[c].moduleName, calls[c].moduleId)
Tmp(c)  == TmpFilePath(Path(c))

\* fetchSymbol: `await mkdirp(tmpDir)` is done; pipeline opens the staging file
MkdirpTmpDir(c) ==
    /\ Drained
    /\ calls[c].pc = "mkdirp_tmpDir"
    /\ tmpDir' = tmpDir \cup {calls[c].cacheDirectory}
    /\ files' = [files EXCEPT ![Tmp(c)] = File(<<>>)]
    /\ calls' = [calls EXCEPT ![c].pc = "pipeline"]
    /\ UNCHANGED <<symbolFiles, tasks, runs, dirs>>
    /\ UNCHANGED lookupVars

\* fetchSymbol: the first part of the server's file reaches the staging file
PipelineData(c) ==
    /\ Drained
    /\ calls[c].pc = "pipeline"
    /\ files[Tmp(c)].data = <<>>
    /\ files' = [files EXCEPT ![Tmp(c)] = File(SubSeq(ServerText(calls[c].server), 1, 1))]
    /\ UNCHANGED <<symbolFiles, calls, tasks, runs, dirs, tmpDir>>
    /\ UNCHANGED lookupVars

\* fetchSymbol: the stream ended, the staging file is complete
PipelineEnd(c) ==
    /\ Drained
    /\ calls[c].pc = "pipeline"
    /\ files[Tmp(c)].data # <<>>
    /\ files' = [files EXCEPT ![Tmp(c)] = File(ServerText(calls[c].server))]
    /\ calls' = [calls EXCEPT ![c].pc = "mkdirp_symbolDir",
                              ![c].answers = Append(@, "file")]
    /\ UNCHANGED <<symbolFiles, tasks, runs, dirs, tmpDir>>
    /\ UNCHANGED lookupVars

\* AfterNotFound, were the miss of the last server thrown like any other error
AfterNotFoundThrow(a) ==
    IF a.server < Len(SYMBOL_BASE_URLS)
    THEN fetchSymbolStart(a, a.server + 1)
    ELSE [a EXCEPT !.pc = "rm", !.e = HTTPError404]

\* AfterNotFound, were the list of servers gone through a second time
AfterNotFoundRetry(a) ==
    IF a.server < Len(SYMBOL_BASE_URLS)
    THEN fetchSymbolStart(a, a.server + 1)
    ELSE IF Len(a.contacted) < 2 * Len(SYMBOL_BASE_URLS)
    THEN fetchSymbolStart(a, 1)
    ELSE [a EXCEPT !.pc = "done", !.settled = "fulfilled"]

\* fetchSymbol returned false: the loop of getSymbolFile takes the next
\* baseUrl, or ends, and getSymbolFile returns undefined
AfterNotFound(a) ==
    IF a.server < Len(SYMBOL_BASE_URLS)
    THEN fetchSymbolStart(a, a.server + 1)
    ELSE [a EXCEPT !.pc = "done", !.settled = "fulfilled"]

\* fetchSymbol's catch and the loop of getSymbolFile around it: the pipeline
\* failed with err.  A 404 answers the request before any data; any other
\* failure can also cut a download short.
PipelineFail(c) ==
    /\ Drained
    /\ calls[c].pc = "pipeline"
    /\ \E err \in FetchErrors :
        /\ err = HTTPError404 => files[Tmp(c)].data = <<>>
        /\ calls' = [calls EXCEPT ![c] =
            LET a == [calls[c] EXCEPT
                        !.answers = Append(@, IF err = HTTPError404 THEN "404" ELSE "error")]
            IN  IF Is404(err) THEN
                    \* return false
                    AfterNotFound(a)
                ELSE
                    \* throw err, caught in getSymbolFile: await rm(...)
                    [a EXCEPT !.pc = "rm", !.e = err]]
    /\ UNCHANGED <<symbolFiles, tasks, runs, dirs, files, tmpDir>>
    /\ UNCHANGED lookupVars

\* fetchSymbol: `await mkdirp(path.dirname(symbolPath))` is done
MkdirpSymbolDir(c) ==
    /\ Drained
    /\ calls[c].pc = "mkdirp_symbolDir"
    /\ dirs' = dirs \cup {Dirname(Path(c))}
    /\ calls' = [calls EXCEPT ![c].pc = "rename"]
    /\ UNCHANGED <<symbolFiles, tasks, runs, files, tmpDir>>
    /\ UNCHANGED lookupVars

\* Rename, were the staging file copied to the cache path
RenameCopy(c) ==
    /\ Drained
    /\ calls[c].pc = "rename"
    /\ files' = [files EXCEPT ![Path(c)] = files[Tmp(c)]]
    /\ calls' = [calls EXCEPT ![c].pc = "parseFetched"]
    /\ UNCHANGED <<symbolFiles, tasks, runs, dirs, tmpDir>>
    /\ UNCHANGED lookupVars

\* fetchSymbol: `await rename(...)` is done, fetchSymbol returns true and
\* getSymbolFile returns the promise of breakpad.parse
Rename(c) ==
    /\ Drained
    /\ calls[c].pc = "rename"
    /\ files' = [files EXCEPT ![Tmp(c)] = NoFile, ![Path(c)] = files[Tmp(c)]]
    /\ calls' = [calls EXCEPT ![c].pc = "parseFetched"]
    /\ UNCHANGED <<symbolFiles, tasks, runs, dirs, tmpDir>>
    /\ UNCHANGED lookupVars

\* breakpad.parse settles: with the SymbolFile, or with the error of the read
\* stream.  getSymbolFile returned the promise without awaiting it, so
\* neither of its catch blocks sees the error.
ParseDone(c) ==
    /\ Drained
    /\ calls[c].pc \in {"parseCached", "parseFetched"}
    /\ calls' = [calls EXCEPT ![c] =
            IF files[Path(c)].exists /\ files[Path(c)].readable
            THEN [@ EXCEPT !.pc = "done", !.settled = "fulfilled",
                           !.value = parse(files[Path(c)].data, keepFirst)]
            ELSE [@ EXCEPT !.pc = "done", !.settled = "rejected",
                           !.e = ReadError, !.value = ReadError]]
    /\ UNCHANGED <<symbolFiles, tasks, runs, dirs, files, tmpDir>>
    /\ UNCHANGED lookupVars

\* Rethrow, were the error dropped after the directory is removed
Swallow(call) == [call EXCEPT !.pc = "done", !.settled = "fulfilled"]

\* `throw e` at the end of getSymbolFile's catch block
Rethrow(call) == [call EXCEPT !.pc = "done", !.settled = "rejected", !.value = call.e]

\* Rm, were only the symbol file removed
RmFileOnly(c) ==
    /\ Drained
    /\ calls[c].pc = "rm"
    /\ files' = [files EXCEPT ![Path(c)] = NoFile]
    /\ calls' = [calls EXCEPT ![c] = Rethrow(@)]
    /\ UNCHANGED <<symbolFiles, tasks, runs, dirs, tmpDir>>
    /\ UNCHANGED lookupVars

\* getSymbolFile's catch around fetchSymbol: `await rm(path.dirname(symbolPath),
\* {recursive, force})` is done, then `throw e`
Rm(c) ==
    /\ Drained
    /\ calls[c].pc = "rm"
    /\ dirs' = dirs \ {Dirname(Path(c))}
    /\ files' = [files EXCEPT ![Path(c)] = NoFile]
    /\ calls' = [calls EXCEPT ![c] = Rethrow(@)]
    /\ UNCHANGED <<symbolFiles, tasks, runs, tmpDir>>
    /\ UNCHANGED lookupVars

\* symbolicateFrame resumes after its await and returns or throws; the
\* Promise.all of its event and of its trace take the outcome.  Promise jobs
\* run in the order they were queued.
TaskResume(t) ==
    /\ Ready(t)
    /\ \A u \in 1..(t - 1) : ~Ready(u)
    /\ LET task == tasks[t]
           r    == task.run
           \* what `await symbolFiles.get(moduleId)` gives
           symbols ==
               IF task.awaits = 0 THEN Undefined
               ELSE [settled |-> calls[task.awaits].settled,
                     value |-> calls[task.awaits].value]
           outcome ==
               IF task.awaits = 0 THEN [ok |-> TRUE, value |-> Unresolved(task.frame)]
               ELSE IF symbols.settled = "rejected"
               THEN [ok |-> FALSE, value |-> symbols.value]
               ELSE symbolicateFrameResume(task.frame, symbols.value)
           out  == IF outcome.ok
                   THEN [runs[r].out EXCEPT
                           ![task.event] = PromiseAllResolve(@, task.index, outcome.value)]
                   ELSE runs[r].out
       IN  /\ tasks' = [tasks EXCEPT
                          ![t].state = IF outcome.ok THEN "fulfilled" ELSE "rejected",
                          ![t].symbols = symbols,
                          ![t].value = outcome.value]
           /\ runs' = [runs EXCEPT ![r] =
                  IF runs[r].settled # "pending" THEN [@ EXCEPT !.out = out]
                  ELSE IF ~outcome.ok
                  THEN [@ EXCEPT !.settled = "rejected", !.value = outcome.value]
                  ELSE IF OutFull(out)
                  THEN [@ EXCEPT !.out = out, !.settled = "fulfilled"]
                  ELSE [@ EXCEPT !.out = out]]
    /\ UNCHANGED <<symbolFiles, calls, dirs, files, tmpDir>>
    /\ UNCHANGED lookupVars

\* cliResume, were the error of symbolicate caught and the trace written as it is
cliResumeCatch(run) == [run EXCEPT !.cli = "written", !.outFile = File(run.out)]

\* cli from `const symbolicated = await symbolicate(trace)` on: with the
\* symbolicated trace fs.writeFileSync(outFile, JSON.stringify(symbolicated));
\* an error of symbolicate leaves cli at the await
cliResume(run) ==
    IF run.settled = "fulfilled"
    THEN [run EXCEPT !.cli = "written", !.outFile = File(run.out)]
    ELSE [run EXCEPT !.cli = "rejected"]

\* cli resumes after its await, once the symbolicateFrame jobs queued before
\* it have run
CliResume(r) ==
    /\ CliReady(r)
    /\ \A t \in 1..Len(tasks) : ~Ready(t)
    /\ runs' = [runs EXCEPT ![r] = cliResume(@)]
    /\ UNCHANGED <<symbolFiles, calls, tasks, dirs, files, tmpDir>>
    /\ UNCHANGED lookupVars

Next ==
    \/ Symbolicate
    \/ \E c \in 1..Len(calls) : MkdirpTmpDir(c)
    \/ \E c \in 1..Len(calls) : PipelineData(c)
    \/ \E c \in 1..Len(calls) : PipelineEnd(c)
    \/ \E c \in 1..Len(calls) : PipelineFail(c)
    \/ \E c \in 1..Len(calls) : MkdirpSymbolDir(c)
    \/ \E c \in 1..Len(calls) : Rename(c)
    \/ \E c \in 1..Len(calls) : ParseDone(c)
    \/ \E c \in 1..Len(calls) : Rm(c)
    \/ \E t \in 1..Len(tasks) : TaskResume(t)
    \/ \E r \in 1..Len(runs) : CliResume(r)

Spec == Init /\ [][Next]_vars

\* the steps of the event loop: the completions of I/O and the promise jobs
Progress ==
    \/ \E c \in 1..Len(calls) : MkdirpTmpDir(c)
    \/ \E c \in 1..Len(calls) : PipelineData(c)
    \/ \E c \in 1..Len(calls) : PipelineEnd(c)
    \/ \E c \in 1..Len(calls) : PipelineFail(c)
    \/ \E c \in 1..Len(calls) : MkdirpSymbolDir(c)
    \/ \E c \in 1..Len(calls) : Rename(c)
    \/ \E c \in 1..Len(calls) : ParseDone(c)
    \/ \E c \in 1..Len(calls) : Rm(c)
    \/ \E t \in 1..Len(tasks) : TaskResume(t)
    \/ \E r \in 1..Len(runs) : CliResume(r)

\* the cache directory holds something for the first module, a symbol file
\* or something unreadable, and nothing for the second
InitFair ==
    /\ LookupIdle
    /\ CoordIdle
    /\ \E cached \in {File(CachedText), UnreadableFile} :
          /\ files = [p \in CachePaths \cup TmpPaths |->
                        IF p = SymbolPath(defaultCacheDirectory, F_A.moduleName, F_A.moduleId)
                        THEN cached ELSE NoFile]
          /\ dirs = {Dirname(p) : p \in {q \in CachePaths : files[q].exists}}

\* Every request to a server is answered and every filesystem operation and
\* file read ends; the event loop runs the jobs that are ready.
SpecFair == InitFair /\ [][Next]_vars /\ WF_vars(Progress)

-----------------------------------------------------------------------------
(* SpecLookup: the parser and lookup on their own.                         *)

InitLookup ==
    /\ LookupInit
    /\ CoordIdle
    /\ dirs = {}
    /\ files = [p \in CachePaths \cup TmpPaths |-> NoFile]

NextLookup == ParseStep \/ ParseReturn \/ Lookup

SpecLookup == InitLookup /\ [][NextLookup]_vars

-----------------------------------------------------------------------------
(* SpecTable: a program that calls symbolicate with options of its own, on *)
(* traces in which one module id comes with two module names.              *)

\* "0x1002 - c [A1]": the module id of F_A under another name
F_A2 == NativeFrame(<<1,0,0,2>>, <<"c">>, "A1")

TableFrames == {F_A, F_A2, F_JS}

TablePaths == CachePathsOf(CacheDirectories, TableFrames)

TableTraces ==
    {<<[cat |-> "disabled-by-default-cpu_profiler", frames |-> fl]>> :
        fl \in UNION {[1..n -> TableFrames] : n \in 1..MaxFrames}}

\* either cache directory may hold the file of a module already
InitTable ==
    /\ LookupIdle
    /\ CoordIdle
    /\ \E cached \in [TablePaths -> {NoFile, File(CachedText)}] :
          /\ files = [p \in TablePaths \cup {TmpFilePath(q) : q \in TablePaths} |->
                        IF p \in TablePaths THEN cached[p] ELSE NoFile]
          /\ dirs = {Dirname(p) : p \in {q \in TablePaths : cached[q].exists}}

\* symbolicate(trace, {cacheDirectory, forceRefetch})
SymbolicateTable ==
    /\ Drained
    /\ Len(runs) < MaxRuns
    /\ \E trace \in {tr \in TableTraces : Len(tasks) + FrameCount(tr, 1) <= MaxTasks},
          forceRefetch \in BOOLEAN, cacheDirectory \in CacheDirectories :
        symbolicate(trace, [cacheDirectory |-> cacheDirectory,
                            forceRefetch |-> forceRefetch], FALSE)
    /\ UNCHANGED <<dirs, files, tmpDir>>
    /\ UNCHANGED lookupVars

NextTable ==
    \/ SymbolicateTable
    \/ \E c \in 1..Len(calls) : MkdirpTmpDir(c)
    \/ \E c \in 1..Len(calls) : PipelineData(c)
    \/ \E c \in 1..Len(calls) : PipelineEnd(c)
    \/ \E c \in 1..Len(calls) : PipelineFail(c)
    \/ \E c \in 1..Len(calls) : MkdirpSymbolDir(c)
    \/ \E c \in 1..Len(calls) : Rename(c)
    \/ \E c \in 1..Len(calls) : ParseDone(c)
    \/ \E c \in 1..Len(calls) : Rm(c)
    \/ \E t \in 1..Len(tasks) : TaskResume(t)

SpecTable == InitTable /\ [][NextTable]_vars

-----------------------------------------------------------------------------
(* SpecParse: the parser on files with records that have no name.          *)

\* "MODULE windows x86_64 A1 a.pdb"
L_MODULE == Line("MODULE", FALSE, <<>>, <<>>, <<>>, <<>>, "a.pdb")
\* "MODULE windows x86_64 A1 ", "FILE 2 ", "FUNC 1020 10 0 " and
\* "PUBLIC 1030 0 ": the line ends after the last space
E_MODULE == Line("MODULE", FALSE, <<>>, <<>>, <<>>, <<>>, "")
E_FILE   == Line("FILE",   FALSE, <<>>, <<>>, <<>>, <<2>>, "")
E_FUNC   == Line("FUNC",   FALSE, <<1,0,2,0>>, <<1,0>>, <<>>, <<>>, "")
E_PUBLIC == Line("PUBLIC", FALSE, <<1,0,3,0>>, <<>>, <<>>, <<>>, "")
\* "1020 8 9 2"
L_LINE3  == Line("LINE",   FALSE, <<1,0,2,0>>, <<8>>, <<9>>, <<2>>, "")

ParseLineCandidates ==
    {L_MODULE, L_FUNC, L_FILE, L_LINE3, E_MODULE, E_FILE, E_FUNC, E_PUBLIC}

ParseTexts == UNION {[1..n -> ParseLineCandidates] : n \in 0..MaxParseLines}

InitParse ==
    /\ keepFirst \in BOOLEAN
    /\ text \in ParseTexts
    /\ pos = 1
    /\ ps = ParseInit
    /\ offset = 0
    /\ result = Undefined
    /\ lpc = "parsing"
    /\ CoordIdle
    /\ dirs = {}
    /\ files = [p \in CachePaths \cup TmpPaths |-> NoFile]

SpecParse == InitParse /\ [][NextLookup]_vars

-----------------------------------------------------------------------------
(* Properties of Spec.                                                     *)

CallsFor(m) == {c \in 1..Len(calls) : calls[c].moduleId = m}

Matched == {t \in 1..Len(tasks) : FrameMatches(tasks[t].frame)}

LastOf(seq) == seq[Len(seq)]

\* C1: for each module id getSymbolFile is started exactly once however many
\* symbolicateFrame tasks reference it, so no two fetches for a module id are
\* ever in flight; all those tasks await that one resolution and are given
\* the same outcome.
FetchDedup ==
    /\ \A m \in ModuleIds : Cardinality(CallsFor(m)) <= 1
    /\ \A t \in Matched : tasks[t].awaits \in CallsFor(tasks[t].frame.moduleId)
    /\ \A t, u \in Matched :
          tasks[t].frame.moduleId = tasks[u].frame.moduleId =>
             /\ tasks[t].awaits = tasks[u].awaits
             /\ (tasks[t].state # "awaiting" /\ tasks[u].state # "awaiting")
                   => tasks[t].symbols = tasks[u].symbols

\* two tasks for one module, both started while its fetch was in flight, have resumed
FetchDedupWitness ==
    \E t, u \in Matched :
        /\ t < u
        /\ tasks[t].frame.moduleId = tasks[u].frame.moduleId
        /\ ~tasks[t].late /\ ~tasks[u].late
        /\ tasks[t].state # "awaiting" /\ tasks[u].state # "awaiting"
        /\ calls[tasks[t].awaits].contacted # <<>>

CachedParseFailureRecovered ==
    \A c \in 1..Len(calls) :
        (calls[c].existed /\ ~calls[c].forceRefetch /\ calls[c].e = ReadError) =>
            /\ calls[c].settled # "rejected"
            /\ calls[c].pc = "done" => calls[c].contacted # <<>>

\* C4: the servers are contacted in list order, server i+1 only after server
\* i answered 404, none after the one that delivered the file, and the
\* SymbolFile returned is the parse of the file that server delivered.
ServersInOrder ==
    \A c \in 1..Len(calls) :
        LET n == Len(calls[c].contacted) IN
        /\ n <= Len(SYMBOL_BASE_URLS)
        /\ \A i \in 1..n : calls[c].contacted[i] = i
        /\ Len(calls[c].answers) \in {n - 1, n} \cap Nat
        /\ \A i \in 1..(n - 1) : calls[c].answers[i] = "404"
        /\ (n > 0 /\ calls[c].settled = "fulfilled" /\ calls[c].value # Undefined) =>
              /\ Len(calls[c].answers) = n
              /\ calls[c].answers[n] = "file"
              /\ calls[c].value = parse(ServerText(calls[c].contacted[n]), keepFirst)

\* the first server answered 404, the second delivered, its file was parsed
ServersInOrderWitness ==
    \E c \in 1..Len(calls) :
        /\ calls[c].contacted = <<1, 2>>
        /\ calls[c].answers = <<"404", "file">>
        /\ calls[c].settled = "fulfilled"
        /\ calls[c].value = parse(ServerText(2), keepFirst)

\* C5: after a server answered with a failure other than 404 no further
\* server is contacted, the resolution fails with that error, and every task
\* awaiting it, early or late, gets the error.
FatalErrorPropagates ==
    /\ \A c \in 1..Len(calls) :
          (calls[c].answers # <<>> /\ LastOf(calls[c].answers) = "error") =>
             /\ Len(calls[c].contacted) = Len(calls[c].answers)
             /\ calls[c].e = HTTPError500
             /\ calls[c].pc \in {"rm", "done"}
             /\ calls[c].pc = "done" =>
                   (calls[c].settled = "rejected" /\ calls[c].value = HTTPError500)
    /\ \A t \in Matched :
          LET c == tasks[t].awaits IN
          (/\ calls[c].answers # <<>>
           /\ LastOf(calls[c].answers) = "error"
           /\ tasks[t].state # "awaiting") =>
              (tasks[t].state = "rejected" /\ tasks[t].value = HTTPError500)

\* a task that awaited the failing fetch and one that came after it failed
\* were both given the error
FatalErrorPropagatesWitness ==
    \E t, u \in Matched :
        /\ tasks[t].awaits = tasks[u].awaits
        /\ ~tasks[t].late /\ tasks[u].late
        /\ tasks[t].state = "rejected" /\ tasks[t].value = HTTPError500
        /\ tasks[u].state = "rejected" /\ tasks[u].value = HTTPError500

\* C6: with forceRefetch true and a file at the cache path getSymbolFile
\* contacts a server, and what it returns after a successful fetch is the
\* parse of the fetched file.
ForcedRefetchFetches ==
    \A c \in 1..Len(calls) :
        (calls[c].forceRefetch /\ calls[c].existed) =>
            /\ calls[c].contacted # <<>>
            /\ (calls[c].settled = "fulfilled" /\ calls[c].value # Undefined) =>
                  calls[c].value = parse(ServerText(LastOf(calls[c].contacted)), keepFirst)

\* the suffix for a matching frame whose module resolved to a SymbolFile that
\* holds the frame's offset; <<>> for any other frame
ResolutionSuffix(frame) ==
    LET c == symbolFiles[frame.moduleId] IN
    IF c = 0 \/ calls[c].settled # "fulfilled" \/ calls[c].value = Undefined THEN <<>>
    ELSE LET line == lookup(calls[c].value, HexVal(frame.offsetHex))
         IN  IF line = Undefined \/ line.func = Null THEN <<>>
             ELSE Resolved(frame, line).suffix

\* C10: the frame list symbolicateFrames returns has as many lines as its
\* input, and line i is input frame i, as it was or with a resolution suffix.
FramesInOrder ==
    \A r \in 1..Len(runs) :
        runs[r].settled = "fulfilled" =>
            \A ev \in 1..Len(runs[r].trace) :
                Eligible(runs[r].trace[ev]) =>
                    LET frames == runs[r].trace[ev].frames
                        lines  == runs[r].out[ev]
                    IN  /\ Len(lines) = Len(frames)
                        /\ \A i \in 1..Len(frames) :
                              /\ lines[i] # Hole
                              /\ lines[i].frame = frames[i]
                              /\ lines[i].suffix # <<>> =>
                                    /\ FrameMatches(frames[i])
                                    /\ lines[i].suffix = ResolutionSuffix(frames[i])

\* a list of two frames whose second frame was resolved before the first: the
\* second module resolved at once, the first had to be fetched
FramesInOrderWitness ==
    \E r \in 1..Len(runs) : \E t, u \in 1..Len(tasks) :
        /\ runs[r].settled = "fulfilled"
        /\ tasks[t].run = r /\ tasks[u].run = r
        /\ tasks[t].event = tasks[u].event
        /\ tasks[t].index = 1 /\ tasks[u].index = 2
        /\ tasks[t].awaits # 0 /\ tasks[u].awaits # 0
        /\ ~tasks[t].late
        /\ calls[tasks[t].awaits].contacted # <<>>
        /\ calls[tasks[u].awaits].contacted = <<>>
        /\ ~calls[tasks[u].awaits].existed
        /\ runs[r].out[tasks[t].event][1].suffix # <<>>

TasksOf(r) == {t \in 1..Len(tasks) : tasks[t].run = r}

\* the resolution task t awaits ended with a fatal transport error
AwaitsFatal(t) ==
    /\ tasks[t].awaits # 0
    /\ calls[tasks[t].awaits].answers # <<>>
    /\ LastOf(calls[tasks[t].awaits].answers) = "error"

\* C11: cli writes the output file only after symbolicate fulfilled, every
\* frame of every event being done, and writes the complete trace; in a run
\* one of whose module resolutions failed with a fatal transport error no
\* output file exists, complete or partial.
OutputOnlyAfterSuccess ==
    \A r \in 1..Len(runs) :
        /\ (runs[r].outFile.exists \/ runs[r].cli = "written") =>
              /\ runs[r].settled = "fulfilled"
              /\ OutFull(runs[r].out)
              /\ runs[r].outFile = File(runs[r].out)
              /\ \A t \in TasksOf(r) : tasks[t].state = "fulfilled"
        /\ (\E t \in TasksOf(r) : AwaitsFatal(t)) =>
              (~runs[r].outFile.exists /\ runs[r].cli # "written")

\* cli was given the error of a fetch after another frame of the trace had
\* been symbolicated, and wrote nothing
OutputOnlyAfterSuccessWitness ==
    \E r \in 1..Len(runs) :
        /\ runs[r].cli = "rejected"
        /\ runs[r].value = HTTPError500
        /\ ~runs[r].outFile.exists
        /\ \E t \in TasksOf(r) : tasks[t].state = "fulfilled" /\ tasks[t].value.suffix # <<>>

\* task t has returned the frame as it was
ReturnedUnchanged(t) ==
    tasks[t].state = "fulfilled" /\ tasks[t].value = Unresolved(tasks[t].frame)

\* C12: symbolicateFrame returns the frame unchanged, raising nothing, when
\* the frame does not match the pattern, when the module's symbol file
\* resolved to absent and when lookup returned absent; in every other case
\* of a resolved module it returns the frame followed by a space, the
\* function name and, when the file is known, " (<file>:<line>)".
FrameEffect ==
    \A t \in 1..Len(tasks) :
        tasks[t].state # "awaiting" =>
            IF ~FrameMatches(tasks[t].frame) THEN ReturnedUnchanged(t)
            ELSE LET c == calls[tasks[t].awaits] IN
                 c.settled = "fulfilled" =>
                    IF c.value = Undefined THEN ReturnedUnchanged(t)
                    ELSE LET line == lookup(c.value, HexVal(tasks[t].frame.offsetHex))
                         IN  IF line = Undefined THEN ReturnedUnchanged(t)
                             ELSE /\ tasks[t].state = "fulfilled"
                                  /\ tasks[t].value = Resolved(tasks[t].frame, line)

\* C14: when the offset of a frame lies in a line record that came before
\* any FUNC record (its func is null), lookup returns that record and
\* symbolicateFrame completes for the frame without raising an error.
NullFunctionTolerated ==
    \A t \in Matched :
        LET c == calls[tasks[t].awaits] IN
        (tasks[t].state # "awaiting" /\ c.settled = "fulfilled" /\ c.value # Undefined) =>
            LET line == lookup(c.value, HexVal(tasks[t].frame.offsetHex))
            IN  (line # Undefined /\ line.func = Null) =>
                    /\ line \in Elems(c.value.lines)
                    /\ tasks[t].state = "fulfilled"

\* every server of the list answered call c with 404
AllNotFound(c) ==
    /\ Len(calls[c].answers) = Len(SYMBOL_BASE_URLS)
    /\ \A i \in 1..Len(calls[c].answers) : calls[c].answers[i] = "404"

\* C13: when every server answered 404 for a module, getSymbolFile has
\* contacted each server exactly once, has completed without error and has
\* returned absent; the frames of that module are returned unchanged and a
\* run whose frames all met this outcome completes.
AllNotFoundIsAbsent ==
    /\ \A c \in 1..Len(calls) :
          AllNotFound(c) =>
             /\ calls[c].contacted = [i \in 1..Len(SYMBOL_BASE_URLS) |-> i]
             /\ calls[c].pc = "done"
             /\ calls[c].settled = "fulfilled"
             /\ calls[c].value = Undefined
             /\ calls[c].e = Undefined
    /\ \A t \in Matched :
          (AllNotFound(tasks[t].awaits) /\ tasks[t].state # "awaiting") =>
             ReturnedUnchanged(t)
    /\ \A r \in 1..Len(runs) :
          (\A t \in TasksOf(r) :
              /\ tasks[t].state # "awaiting"
              /\ FrameMatches(tasks[t].frame) => AllNotFound(tasks[t].awaits)) =>
             runs[r].settled = "fulfilled"

\* a run with a frame of a module no server had, started before the servers
\* had answered, has completed
AllNotFoundIsAbsentWitness ==
    \E r \in 1..Len(runs) : \E t \in TasksOf(r) :
        /\ FrameMatches(tasks[t].frame)
        /\ AllNotFound(tasks[t].awaits)
        /\ ~tasks[t].late
        /\ ReturnedUnchanged(t)
        /\ runs[r].settled = "fulfilled"

\* fetchSymbol has completed successfully for call c
Fetched(c) ==
    /\ calls[c].answers # <<>>
    /\ LastOf(calls[c].answers) = "file"
    /\ calls[c].pc \in {"parseFetched", "done"}

\* C15 as stated: after fetchSymbol completed successfully nothing of the
\* staging location is left under the cache root, neither the staging file
\* nor the staging directory.
StagingRemoved ==
    \A c \in 1..Len(calls) :
        Fetched(c) => (~files[Tmp(c)].exists /\ calls[c].cacheDirectory \notin tmpDir)

\* C15, amended: after fetchSymbol completed successfully its staging file
\* no longer exists, having been renamed to the cache path; the staging
\* directory in_progress that it created stays.
StagingFileRenamed ==
    /\ \A c \in 1..Len(calls) :
          Fetched(c) =>
             /\ ~files[Tmp(c)].exists
             /\ files[Path(c)].exists
             /\ calls[c].cacheDirectory \in tmpDir
    /\ \A c \in 1..Len(calls) :
          calls[c].answers # <<>> => calls[c].cacheDirectory \in tmpDir

\* the second server delivered after the first had left an empty staging file
StagingFileRenamedWitness ==
    \E c \in 1..Len(calls) :
        /\ Fetched(c)
        /\ calls[c].answers = <<"404", "file">>
        /\ ~files[Tmp(c)].exists
        /\ calls[c].cacheDirectory \in tmpDir

\* C16 as stated: whenever no file is at the cache path of the module and
\* forceRefetch is false, the per-module directory existing or not,
\* getSymbolFile contacts at least one server.
AbsentFileFetches ==
    \A c \in 1..Len(calls) :
        (~calls[c].forceRefetch /\ ~calls[c].existed) => calls[c].contacted # <<>>

\* C16, amended: with no file at the cache path and forceRefetch false,
\* getSymbolFile starts the fetch with the first server when the per-module
\* directory does not exist either; when that directory exists it contacts
\* no server and returns absent.
AbsentFileFetchesUnlessDirectory ==
    \A c \in 1..Len(calls) :
        (~calls[c].forceRefetch /\ ~calls[c].existed) =>
            IF calls[c].dirExisted
            THEN /\ calls[c].contacted = <<>>
                 /\ calls[c].pc = "done"
                 /\ calls[c].settled = "fulfilled"
                 /\ calls[c].value = Undefined
            ELSE /\ calls[c].contacted # <<>>
                 /\ calls[c].contacted[1] = 1

\* one module's directory existed without its file and its frame came back
\* unchanged; another module had neither and was fetched
AbsentFileFetchesUnlessDirectoryWitness ==
    \E t, u \in Matched :
        /\ ~calls[tasks[t].awaits].forceRefetch /\ ~calls[tasks[u].awaits].forceRefetch
        /\ ~calls[tasks[t].awaits].existed /\ calls[tasks[t].awaits].dirExisted
        /\ ReturnedUnchanged(t)
        /\ ~calls[tasks[u].awaits].existed /\ ~calls[tasks[u].awaits].dirExisted
        /\ Fetched(tasks[u].awaits)

\* getSymbolFile call c has ended with the fatal error of a fetch
FailedFatally(c) ==
    /\ calls[c].pc = "done"
    /\ calls[c].answers # <<>>
    /\ LastOf(calls[c].answers) = "error"

\* C17 as stated: after a module's fetch failed fatally neither the per-module
\* directory nor a file at the cache path exists, and the next attempt to
\* obtain the module's symbol file is a new fetch, not the failure again: no
\* frame is started on the resolution that had failed.
FailedFetchRetried ==
    \A c \in 1..Len(calls) :
        FailedFatally(c) =>
            /\ Dirname(Path(c)) \notin dirs
            /\ ~files[Path(c)].exists
            /\ \A t \in Matched : tasks[t].awaits = c => ~tasks[t].late

\* C17, amended: after a module's fetch failed fatally neither the
\* per-module directory nor a file at the cache path exists, so that a
\* getSymbolFile call made for the module in this state of the cache
\* directory starts a fetch with the first server; within the process
\* symbolFiles keeps the failed resolution, no such call is made and the
\* frames that come later are given its error.
FailedFetchLeavesNoDirectory ==
    \A c \in 1..Len(calls) :
        FailedFatally(c) =>
            /\ Dirname(Path(c)) \notin dirs
            /\ ~files[Path(c)].exists
            /\ \A force \in BOOLEAN :
                  getSymbolFile(calls[c].moduleId, calls[c].moduleName,
                                [cacheDirectory |-> calls[c].cacheDirectory,
                                 forceRefetch |-> force], files, dirs).contacted = <<1>>
            /\ symbolFiles[calls[c].moduleId] = c
            /\ \A t \in Matched :
                  (tasks[t].awaits = c /\ tasks[t].late /\ tasks[t].state # "awaiting") =>
                      (tasks[t].state = "rejected" /\ tasks[t].value = calls[c].e)

\* a forced fetch into a directory that existed failed: the directory is
\* gone, and a frame of a later symbolicate() call was given the error
FailedFetchLeavesNoDirectoryWitness ==
    \E t \in Matched :
        /\ FailedFatally(tasks[t].awaits)
        /\ calls[tasks[t].awaits].dirExisted
        /\ Dirname(Path(tasks[t].awaits)) \notin dirs
        /\ tasks[t].late
        /\ tasks[t].state = "rejected"

\* the requests made to the servers for module id m, from call c on
RECURSIVE AttemptsFrom(_, _)
AttemptsFrom(m, c) ==
    IF c > Len(calls) THEN 0
    ELSE (IF calls[c].moduleId = m THEN Len(calls[c].contacted) ELSE 0)
         + AttemptsFrom(m, c + 1)

\* every symbolicate() call made so far has settled
AllSettled == \A r \in 1..Len(runs) : runs[r].settled # "pending"

\* C20: when every request is answered and every read ends, every
\* symbolicate() call settles, with its result or with an error: time and
\* again all the calls made so far have settled; and at no time have more
\* requests been made for a module id than there are base URLs.
EventuallySettles ==
    /\ [](\A m \in ModuleIds : AttemptsFrom(m, 1) <= Len(SYMBOL_BASE_URLS))
    /\ []<>AllSettled

\* a call that had to wait for both servers has settled
EventuallySettlesWitness ==
    \E r \in 1..Len(runs) : \E t \in TasksOf(r) :
        /\ runs[r].settled # "pending"
        /\ tasks[t].awaits # 0
        /\ ~tasks[t].late
        /\ Len(calls[tasks[t].awaits].contacted) = Len(SYMBOL_BASE_URLS)

-----------------------------------------------------------------------------
(* Properties of SpecTable.                                                *)

\* every entry of symbolFiles is the one getSymbolFile call of its module id
TableEntries ==
    /\ \A m \in ModuleIds : Cardinality(CallsFor(m)) <= 1
    /\ \A m \in ModuleIds :
          symbolFiles[m] # 0 => symbolFiles[m] \in CallsFor(m)
    /\ \A t \in Matched : tasks[t].awaits = symbolFiles[tasks[t].frame.moduleId]

\* a step leaves every entry of symbolFiles and the call it stands for in
\* place: the same call, made for the same name, directory and option
TableEntriesKept ==
    \A m \in ModuleIds :
        symbolFiles[m] # 0 =>
            /\ symbolFiles'[m] = symbolFiles[m]
            /\ calls'[symbolFiles[m]].moduleName = calls[symbolFiles[m]].moduleName
            /\ calls'[symbolFiles[m]].cacheDirectory = calls[symbolFiles[m]].cacheDirectory
            /\ calls'[symbolFiles[m]].forceRefetch = calls[symbolFiles[m]].forceRefetch

\* C19: symbolFiles only grows: an entry, once made, is never removed or
\* replaced, whatever its outcome, so getSymbolFile runs at most once per
\* module id in the process, also when later symbolicate() calls name another
\* cacheDirectory or forceRefetch or the module id comes with another name.
TableOnlyGrows == [](TableEntries) /\ [][TableEntriesKept]_vars

\* after the fetch of a module failed, a later symbolicate() call with the
\* other cache directory, the other forceRefetch and the module id under
\* another name was given the failed resolution
TableOnlyGrowsWitness ==
    \E t, u \in Matched :
        /\ tasks[t].run < tasks[u].run
        /\ tasks[t].frame.moduleId = tasks[u].frame.moduleId
        /\ tasks[t].frame.moduleName # tasks[u].frame.moduleName
        /\ runs[tasks[t].run].opts.cacheDirectory # runs[tasks[u].run].opts.cacheDirectory
        /\ runs[tasks[t].run].opts.forceRefetch # runs[tasks[u].run].opts.forceRefetch
        /\ tasks[u].awaits = tasks[t].awaits
        /\ tasks[u].late
        /\ tasks[u].state = "rejected"
        /\ Cardinality(CallsFor(tasks[u].frame.moduleId)) = 1

-----------------------------------------------------------------------------
(* Properties of SpecLookup.                                               *)

\* r is a record of S with the greatest address <= k
IsPredecessor(r, S, k) ==
    /\ r \in S
    /\ r.address <= k
    /\ \A q \in S : q.address <= k => q.address <= r.address

\* the range of r contains k
Contains(r, k) == r.address <= k /\ k < r.address + r.size

LineHit == \E r \in Elems(ps.lines) :
              IsPredecessor(r, Elems(ps.lines), offset) /\ Contains(r, offset)

FunctionHit == \E f \in Elems(ps.functions) :
                  IsPredecessor(f, Elems(ps.functions), offset) /\ Contains(f, offset)

PublicBelow == \E p \in Elems(ps.publicAddresses) : p.address <= offset

LineLevel(res)     == res \in Elems(ps.lines)
FunctionLevel(res) == \E f \in Elems(ps.functions) : res = [func |-> f]
PublicLevel(res)   == \E p \in Elems(ps.publicAddresses) : res = [func |-> p]

\* C7: lookup returns the line record whenever the predecessor line record
\* contains the offset, whatever else covers it; a function-level result only
\* when no line record matches and the predecessor function record contains
\* the offset; a public symbol only when neither matches.
LookupPriority ==
    lpc = "looked" =>
        /\ LineHit => (LineLevel(result) /\ Contains(result, offset)
                         /\ IsPredecessor(result, Elems(ps.lines), offset))
        /\ FunctionLevel(result) => (~LineHit /\ FunctionHit)
        /\ (~LineHit /\ FunctionHit) =>
              (FunctionLevel(result)
                 /\ IsPredecessor(result.func, Elems(ps.functions), offset))
        /\ PublicLevel(result) => (~LineHit /\ ~FunctionHit)

\* a line record, a function record and a public symbol all cover the offset
LookupPriorityWitness ==
    /\ lpc = "looked"
    /\ LineHit /\ FunctionHit /\ PublicBelow
    /\ LineLevel(result)

\* C8: lookup returns no line or function record whose range ends at or
\* before the offset, and absent when also no public symbol is at or below
\* the offset; the documented example gives foo, a.cc, 42 at
\* 0x1015, foo alone at 0x1002 and absent at 0x2000.
LookupRangeExclusive ==
    lpc = "looked" =>
        /\ LineLevel(result) => offset < result.address + result.size
        /\ FunctionLevel(result) => offset < result.func.address + result.func.size
        /\ (~LineHit /\ ~FunctionHit /\ ~PublicBelow) => result = Undefined
        /\ text = ExampleText =>
              /\ offset = HexVal(<<1,0,1,5>>) =>
                    /\ LineLevel(result)
                    /\ result.func # Null /\ result.func.name = "foo"
                    /\ result.file = Str("a.cc") /\ result.line = 42
              /\ offset = HexVal(<<1,0,0,2>>) =>
                    /\ FunctionLevel(result)
                    /\ result.func.name = "foo"
              /\ offset = HexVal(<<2,0,0,0>>) => result = Undefined

\* the offset is the first address after its predecessor function record,
\* no public symbol is below it, and lookup returned absent
LookupRangeExclusiveWitness ==
    /\ lpc = "looked"
    /\ \E f \in Elems(ps.functions) :
          /\ IsPredecessor(f, Elems(ps.functions), offset)
          /\ offset = f.address + f.size
    /\ ~PublicBelow
    /\ result = Undefined

\* C9: when a public symbol is at or below the offset and no line record and
\* no function record contains the offset, lookup returns the public symbol
\* with the greatest address <= offset, however far below the offset it is.
PublicFallbackUnbounded ==
    lpc = "looked" =>
        ((/\ PublicBelow
          /\ \A r \in Elems(ps.lines) : ~Contains(r, offset)
          /\ \A f \in Elems(ps.functions) : ~Contains(f, offset)) =>
            /\ PublicLevel(result)
            /\ IsPredecessor(result.func, Elems(ps.publicAddresses), offset))

\* the public symbol at 0x1008 answers for 0x7fffffff, past a function record
PublicFallbackUnboundedWitness ==
    /\ lpc = "looked"
    /\ offset = HexVal(<<7,15,15,15,15,15,15,15>>)
    /\ ps.functions # <<>>
    /\ PublicLevel(result)
    /\ result.func.address = HexVal(<<1,0,0,8>>)

-----------------------------------------------------------------------------
(* Properties of SpecParse.                                                *)

\* the fixed-format prefix of a MODULE, FILE, FUNC or PUBLIC line matches
PrefixMatches(l) ==
    \/ l.kind = "MODULE"
    \/ l.kind = "FILE" /\ l.fileId # <<>>
    \/ l.kind = "FUNC" /\ l.addressHex # <<>> /\ l.sizeHex # <<>> /\ l.parameterSizeHex # <<>>
    \/ l.kind = "PUBLIC" /\ l.addressHex # <<>> /\ l.parameterSizeHex # <<>>

\* a keyword line whose prefix matches and whose name is empty
EmptyNamed(l) == PrefixMatches(l) /\ l.name = ""

\* the lines the parser has read
LinesRead == SubSeq(text, 1, pos - 1)

\* C18 as stated: a MODULE, FILE, FUNC or PUBLIC line with a matching prefix
\* and an empty name is accepted: after it was read its record is there with
\* name "", and a FUNC of that kind is the current function while no other
\* FUNC line has followed.
EmptyNameAccepted ==
    \A i \in 1..Len(LinesRead) :
        EmptyNamed(text[i]) =>
            /\ text[i].kind = "MODULE" =>
                  (ps.module # Undefined /\ (i = Len(LinesRead) => ps.module.name = ""))
            /\ text[i].kind = "FILE" =>
                  filesByIdGet(ps.filesById, text[i].fileId) # Undefined
            /\ text[i].kind = "FUNC" =>
                  /\ \E f \in Elems(ps.functions) : f.address = HexVal(text[i].addressHex)
                  /\ i = Len(LinesRead) => (ps.lastFunc # Null /\ ps.lastFunc.name = "")
            /\ text[i].kind = "PUBLIC" =>
                  \E f \in Elems(ps.publicAddresses) : f.address = HexVal(text[i].addressHex)

\* C18, amended: a MODULE, FILE, FUNC or PUBLIC line with a matching prefix
\* and an empty name matches no record pattern and is skipped: the parser is
\* in the state it would be in had those lines not been in the file, no
\* record has the name "" and such a FUNC line is never the current function.
EmptyNameSkipped ==
    /\ ps = parse(SelectSeq(LinesRead, LAMBDA l : ~EmptyNamed(l)), keepFirst)
    /\ \A f \in Elems(ps.functions) \cup Elems(ps.publicAddresses) : f.name # ""
    /\ \A i \in 1..Len(ps.filesById) : ps.filesById[i].name # ""
    /\ ps.module # Undefined => ps.module.name # ""
    /\ ps.lastFunc # Null => ps.lastFunc.name # ""

\* after "FUNC 1000 50 0 foo" and "FUNC 1020 10 0 " the line record
\* "1020 8 9 2" was given foo as its function
EmptyNameSkippedWitness ==
    /\ lpc = "parsed"
    /\ text = <<L_FUNC, E_FUNC, L_LINE3>>
    /\ Len(ps.functions) = 1
    /\ ps.lines[1].func.name = "foo"

=============================================================================
